---- MODULE Spec2Model ----
(***************************************************************************)
(* Model of the telemetry / session-tracking service of                    *)
(* niquet/rate-limited-worker: internal/service/service.go together with   *)
(* the HTTP handlers (internal/handlers/handler.go) and the metrics        *)
(* middleware (internal/middleware/middleware.go) that call it.            *)
(*                                                                         *)
(* Every request-handling goroutine is a process p \in Procs.  A process   *)
(* is either idle or somewhere inside one operation; pc[p] is its          *)
(* position.  Each access to shared memory that another goroutine can      *)
(* tell apart (an atomic add or load of a counter, a critical section of   *)
(* the session mutex up to its next counter access) is one action, so      *)
(* that every interleaving of the Go scheduler is a behaviour.  Work on    *)
(* locals is folded into the shared access before it.                      *)
(***************************************************************************)
EXTENDS Integers, Sequences, FiniteSets, TLC

\* ---------------------------------------------------------------- bounds
NumProcs == 2   \* concurrent request goroutines
MaxOps == 3     \* operations started over a run
MaxTime == 2    \* the clock runs over 1..MaxTime
MaxAge == 1     \* evict thresholds are drawn from 0..MaxAge

\* ------------------------------------------------------------- constants
ZeroTime == 0   \* time.Time{}: event.Timestamp.IsZero()
startTime == 1  \* the clock when New built the service
NoLock == 0     \* sessionMutex not held by a writer

Procs == 1..NumProcs
SessionIDs == {"", "s1"}
EventTypes == {"", "click", "mousemove", "scroll", "custom", "hover"}

\* A value of the map[string]interface{} of TrackingEvent.Custom, as the
\* JSON decoder leaves it: its dynamic type and its text.
StringValue(v) == [kind |-> "string", val |-> v]
NumberValue(v) == [kind |-> "number", val |-> v]
BoolValue(v) == [kind |-> "bool", val |-> v]
NullValue == [kind |-> "nil", val |-> "null"]

\* No custom field in the request: a nil map.
NoCustom == <<>>

\* The custom maps of SpecCustom: one string; a string beside a number;
\* no string at all; a string under the key of an attribute the span has.
CustomMaps ==
    { NoCustom,
      "label" :> StringValue("buy"),
      "label" :> StringValue("buy") @@ "count" :> NumberValue("3"),
      "flag" :> BoolValue("true") @@ "note" :> NullValue,
      "session_id" :> StringValue("other") }

\* TrackingEvent, reduced to the fields the service's state and the custom
\* span depend on.
TrackingEvent(types, stamps, customs) ==
    [EventType : types, SessionID : SessionIDs, Timestamp : stamps,
     ElementID : {"btn"}, Custom : customs]

\* The requests of Spec: every event type, the timestamp left to the
\* server, no custom map.
Requests == TrackingEvent(EventTypes, {ZeroTime}, {NoCustom})
NoEvent == [EventType |-> "-", SessionID |-> "-", Timestamp |-> ZeroTime,
            ElementID |-> "-", Custom |-> NoCustom]

\* HealthMetrics; Uptime is in ticks of the clock since New.
\* Seq and Quiet are history: how many operations had started before this
\* one, and whether no other operation has run since it started.
NoHealth == [Uptime |-> -1, TotalClicks |-> -1, PageViews |-> -1,
             ActiveUsers |-> -1, TotalSessions |-> -1, Seq |-> -1,
             Quiet |-> FALSE]

NoRate == <<-1, 1>>
NoAttributes == <<>>
NoSweep == <<-1, -1>>

VARIABLES
    sessions,        \* s.sessions: session id -> SessionData
    clickCounter,    \* s.clickCounter
    pageViews,       \* s.pageViews
    sessionCounter,  \* s.sessionCounter
    writer,          \* s.sessionMutex: the process holding Lock(), or NoLock
    readers,         \* s.sessionMutex: the processes holding RLock()
    now,             \* the clock read by time.Now()
    pc,              \* position of each process
    event,           \* the event a TrackEvent request carries
    arg,             \* the duration argument of CleanupOldSessions / GetClickRate
    clnNow,          \* CleanupOldSessions: local now
    todo,            \* CleanupOldSessions: sessions the range loop has yet to visit
    hm,              \* GetHealthMetrics: the fields read so far
    rate,            \* GetClickRate: the value returned, as <<clicks, minutes>>
    result,          \* what the operation of the process returned
    samples,         \* telemetry samples the current request has emitted
    detail,          \* attributes set on the custom_event span of the request
    started,         \* history: number of operations started
    sentClicks,      \* history: accepted click events per session id
    evicted,         \* history: session ids a sweep has removed
    preEvict,        \* history: s.sessions when the running sweep took the lock
    lastSweep        \* history: now and maxAge of the last sweep, if no
                     \*          submit has updated a session since

shared == <<sessions, clickCounter, pageViews, sessionCounter>>
mutex == <<writer, readers>>
locals == <<event, arg, clnNow, todo, hm, rate, result, samples, detail>>
history == <<started, sentClicks, evicted, preEvict, lastSweep>>
vars == <<sessions, clickCounter, pageViews, sessionCounter, writer, readers,
          now, pc, event, arg, clnNow, todo, hm, rate, result, samples,
          detail,
          started, sentClicks, evicted, preEvict, lastSweep>>

NoSessions == [s \in {} |-> 0]

\* service.go:93-103  New(): an empty session map, counters at zero, the
\* mutex free; no request is running.
Init ==
    /\ sessions = NoSessions
    /\ clickCounter = 0
    /\ pageViews = 0
    /\ sessionCounter = 0
    /\ writer = NoLock
    /\ readers = {}
    /\ now = startTime
    /\ pc = [p \in Procs |-> "idle"]
    /\ event = [p \in Procs |-> NoEvent]
    /\ arg = [p \in Procs |-> 0]
    /\ clnNow = [p \in Procs |-> 0]
    /\ todo = [p \in Procs |-> {}]
    /\ hm = [p \in Procs |-> NoHealth]
    /\ rate = [p \in Procs |-> NoRate]
    /\ result = [p \in Procs |-> "none"]
    /\ samples = [p \in Procs |-> {}]
    /\ detail = [p \in Procs |-> NoAttributes]
    /\ started = 0
    /\ sentClicks = [s \in SessionIDs |-> 0]
    /\ evicted = {}
    /\ preEvict = NoSessions
    /\ lastSweep = NoSweep

\* ------------------------------------------------------------ helpers
Goto(p, label) == pc' = [pc EXCEPT ![p] = label]

\* A finished request returns before anything else happens.  Return touches
\* nothing but the locals of its process, so it commutes with every other
\* step: taking it first loses no behaviour of the service.
Ready == \A q \in Procs : pc[q] # "done"

\* History: a request arriving at p ends the quiet of every running snapshot.
Disturb(p) ==
    [q \in Procs |-> IF q # p /\ pc[q] # "idle"
                     THEN [hm[q] EXCEPT !.Quiet = FALSE] ELSE hm[q]]

\* A request arrives and is served by a free goroutine.  Goroutines are
\* interchangeable, so the free one with the least number takes it.
Begin(p, e, d, label) ==
    /\ Ready
    /\ pc[p] = "idle"
    /\ \A q \in Procs : q < p => pc[q] # "idle"
    /\ started < MaxOps
    /\ started' = started + 1
    /\ pc' = [pc EXCEPT ![p] = label]
    /\ event' = [event EXCEPT ![p] = e]
    /\ arg' = [arg EXCEPT ![p] = d]

\* The request of process p is over; its locals are gone.
Return(p) ==
    /\ pc[p] = "done"
    /\ Goto(p, "idle")
    /\ event' = [event EXCEPT ![p] = NoEvent]
    /\ arg' = [arg EXCEPT ![p] = 0]
    /\ clnNow' = [clnNow EXCEPT ![p] = 0]
    /\ hm' = [hm EXCEPT ![p] = NoHealth]
    /\ rate' = [rate EXCEPT ![p] = NoRate]
    /\ result' = [result EXCEPT ![p] = "none"]
    /\ samples' = [samples EXCEPT ![p] = {}]
    /\ detail' = [detail EXCEPT ![p] = NoAttributes]
    /\ UNCHANGED <<shared, mutex, now, todo, history>>

\* The clock advances.
Tick ==
    /\ Ready
    /\ now < MaxTime
    /\ now' = now + 1
    /\ UNCHANGED <<shared, mutex, pc, locals, history>>

\* An OpenTelemetry instrument call returns nothing, so a failure of the
\* exporter can only drop samples: the samples of a request land or are lost.
Emit(p, S) ==
    \E landed \in {S, {}} : samples' = [samples EXCEPT ![p] = landed]

\* service.go:146-219, 261-275  the samples each record* function emits.
ClickSamples == {"worker_clicks_total", "worker_cursor_positions:x:click",
                 "worker_cursor_positions:y:click", "span:click_analytics"}
MoveSamples == {"worker_cursor_positions:x:mousemove",
                "worker_cursor_positions:y:mousemove"}
ScrollSamples == {"worker_cursor_positions:scroll_x:scroll",
                  "worker_cursor_positions:scroll_y:scroll"}
CustomSamples == {"span:custom_event"}
\* handler.go:160 and middleware.go:77  the spans of TrackEvent and of
\* MetricsCollector, which every request to /api/track gets.
RequestSpans == {"span:track_event_handler", "span:http_request_metrics"}
\* service.go:107-108  the span of ProcessTrackingEvent itself.
TrackingSpan == {"span:process_tracking_event"}
HTTPSamples == {"worker_http_requests_total",
                "worker_http_request_duration_seconds"}

\* ------------------------------------------------- POST /api/track
\* The validation left out: every event is processed.
InvalidEventNever(e) == FALSE

\* Validation against the known types: an unrecognized type is rejected too.
InvalidEventUnknown(e) ==
    e.EventType \notin {"click", "mousemove", "scroll", "custom"}

\* An event without a session id refused as well.
InvalidEventNoSession(e) == e.EventType = "" \/ e.SessionID = ""

\* handler.go:181  the one validation of TrackEvent.
InvalidEvent(e) == e.EventType = ""

\* The assignment of line 189 outside its if: the caller's timestamp lost.
StampAlways(e, t) == [e EXCEPT !.Timestamp = t]

\* handler.go:188-190  an unset timestamp becomes the ingestion time.
Stamp(e, t) == IF e.Timestamp = ZeroTime THEN [e EXCEPT !.Timestamp = t] ELSE e

\* The validation placed inside ProcessTrackingEvent, after its span began.
TrackEventRejectLate(p, E) ==
    \E e \in E :
        /\ InvalidEvent(e)
        /\ Begin(p, e, 0, "done")
        /\ result' = [result EXCEPT ![p] = "ValidationError"]
        /\ Emit(p, RequestSpans \cup TrackingSpan \cup HTTPSamples)
        /\ detail' = detail
        /\ hm' = Disturb(p)
        /\ UNCHANGED <<shared, mutex, now, clnNow, todo, rate, sentClicks,
                       evicted, preEvict, lastSweep>>

\* handler.go:159-185 and middleware.go:84-90  the request is decoded and
\* fails validation: 400.  The handler returns to MetricsCollector, which
\* wraps /api/track and records the request (RecordHTTPMetrics).
TrackEventReject(p, E) ==
    \E e \in E :
        /\ InvalidEvent(e)
        /\ Begin(p, e, 0, "done")
        /\ result' = [result EXCEPT ![p] = "ValidationError"]
        /\ Emit(p, RequestSpans \cup HTTPSamples)
        /\ detail' = detail
        /\ hm' = Disturb(p)
        /\ UNCHANGED <<shared, mutex, now, clnNow, todo, rate, sentClicks,
                       evicted, preEvict,
                       lastSweep>>

\* handler.go:159-199  the request is decoded, passes validation, gets its
\* timestamp and enters ProcessTrackingEvent, whose first act is
\* updateSession (service.go:119).
TrackEventAccept(p, E) ==
    \E e \in E :
        /\ ~InvalidEvent(e)
        /\ Begin(p, Stamp(e, now), e.Timestamp, "upd_lock")
        /\ sentClicks' = IF e.EventType = "click"
                         THEN [sentClicks EXCEPT ![e.SessionID] = @ + 1]
                         ELSE sentClicks
        /\ hm' = Disturb(p)
        /\ UNCHANGED <<shared, mutex, now, clnNow, todo, rate, result,
                       samples, detail, evicted, preEvict,
                       lastSweep>>

\* service.go:228-234  the SessionData literal; t0 and t1 are its two
\* readings of the clock.
NewSession(sid, t0, t1) ==
    [ID |-> sid, StartTime |-> t0, LastActive |-> t1, ClickCount |-> 0,
     Events |-> <<>>]

\* updateSession without the Lock(): it enters whoever holds the mutex.
UpdLockNoWait(p) ==
    /\ Ready
    /\ pc[p] = "upd_lock"
    /\ writer' = p
    /\ LET sid == event[p].SessionID IN
        IF sid \in DOMAIN sessions
        THEN /\ Goto(p, "upd_touch")
             /\ UNCHANGED <<sessions, now>>
        ELSE \E t1 \in {now, IF now < MaxTime THEN now + 1 ELSE now} :
                /\ sessions' = [s \in DOMAIN sessions \cup {sid} |->
                                  IF s = sid THEN NewSession(sid, now, t1)
                                  ELSE sessions[s]]
                /\ now' = t1
                /\ Goto(p, "upd_count")
    /\ lastSweep' = NoSweep
    /\ UNCHANGED <<clickCounter, pageViews, sessionCounter, readers, locals,
                   started, sentClicks, evicted, preEvict>>

\* service.go:222-235  s.sessionMutex.Lock(); look the session up; create
\* and store it if absent.
UpdLock(p) ==
    /\ Ready
    /\ pc[p] = "upd_lock"
    /\ writer = NoLock
    /\ readers = {}
    /\ writer' = p
    /\ LET sid == event[p].SessionID IN
        IF sid \in DOMAIN sessions
        THEN /\ Goto(p, "upd_touch")
             /\ UNCHANGED <<sessions, now>>
        ELSE \E t1 \in {now, IF now < MaxTime THEN now + 1 ELSE now} :
                /\ sessions' = [s \in DOMAIN sessions \cup {sid} |->
                                  IF s = sid THEN NewSession(sid, now, t1)
                                  ELSE sessions[s]]
                /\ now' = t1
                /\ Goto(p, "upd_count")
    /\ lastSweep' = NoSweep
    /\ UNCHANGED <<clickCounter, pageViews, sessionCounter, readers, locals,
                   started, sentClicks, evicted, preEvict>>

\* The new session counted only when its first event is a click.
UpdCountOnClick(p) ==
    /\ Ready
    /\ pc[p] = "upd_count"
    /\ sessionCounter' = IF event[p].EventType = "click"
                         THEN sessionCounter + 1 ELSE sessionCounter
    /\ Goto(p, "upd_touch")
    /\ UNCHANGED <<sessions, clickCounter, pageViews, mutex, now, locals,
                   history>>

\* service.go:236  atomic.AddInt64(&s.sessionCounter, 1)
UpdCount(p) ==
    /\ Ready
    /\ pc[p] = "upd_count"
    /\ sessionCounter' = sessionCounter + 1
    /\ Goto(p, "upd_touch")
    /\ UNCHANGED <<sessions, clickCounter, pageViews, mutex, now, locals,
                   history>>

\* LastActive taken from the event's timestamp instead of the clock.
TouchEventTime(session, e, t) ==
    [session EXCEPT !.LastActive = e.Timestamp,
                    !.Events = Append(@, e),
                    !.ClickCount = IF e.EventType = "click" THEN @ + 1 ELSE @]

\* ClickCount++ outside the if: every event counts as a click.
TouchCountAll(session, e, t) ==
    [session EXCEPT !.LastActive = t,
                    !.Events = Append(@, e),
                    !.ClickCount = @ + 1]

\* The session keeps its latest event only.
TouchLatestOnly(session, e, t) ==
    [session EXCEPT !.LastActive = t,
                    !.Events = <<e>>,
                    !.ClickCount = IF e.EventType = "click" THEN @ + 1 ELSE @]

\* service.go:240-245  the update of the session the lookup found or made.
Touch(session, e, t) ==
    [session EXCEPT !.LastActive = t,
                    !.Events = Append(@, e),
                    !.ClickCount = IF e.EventType = "click" THEN @ + 1 ELSE @]

\* An update that also drops every other session idle since before now.
UpdTouchTrim(p) ==
    /\ Ready
    /\ pc[p] = "upd_touch"
    /\ writer = p
    /\ LET sid == event[p].SessionID
           kept == {s \in DOMAIN sessions : s = sid \/ sessions[s].LastActive >= now}
       IN sessions' = [s \in kept |-> IF s = sid
                                       THEN Touch(sessions[s], event[p], now)
                                       ELSE sessions[s]]
    /\ writer' = NoLock
    /\ Goto(p, "pte_dispatch")
    /\ UNCHANGED <<clickCounter, pageViews, sessionCounter, readers, now, locals,
                   history>>

\* An update that returns without the Unlock().
UpdTouchHolds(p) ==
    /\ Ready
    /\ pc[p] = "upd_touch"
    /\ writer = p
    /\ LET sid == event[p].SessionID IN
        sessions' = [sessions EXCEPT ![sid] = Touch(@, event[p], now)]
    /\ Goto(p, "pte_dispatch")
    /\ UNCHANGED <<clickCounter, pageViews, sessionCounter, mutex, now, locals,
                   history>>

\* service.go:240-246  the update, then the deferred Unlock(); back in
\* ProcessTrackingEvent at the switch.
UpdTouch(p) ==
    /\ Ready
    /\ pc[p] = "upd_touch"
    /\ writer = p
    /\ LET sid == event[p].SessionID IN
        sessions' = [sessions EXCEPT ![sid] = Touch(@, event[p], now)]
    /\ writer' = NoLock
    /\ Goto(p, "pte_dispatch")
    /\ UNCHANGED <<clickCounter, pageViews, sessionCounter, readers, now, locals,
                   history>>

\* A racy s.clickCounter++: of two increments in flight together one is lost.
recordClickRacy(n) ==
    IF \E p, q \in Procs :
          /\ p # q
          /\ pc[p] = "pte_dispatch" /\ event[p].EventType = "click"
          /\ pc[q] = "pte_dispatch" /\ event[q].EventType = "click"
    THEN n ELSE n + 1

\* The click added twice, once more for the metric.
recordClickTwice(n) == n + 2

\* service.go:148  atomic.AddInt64(&s.clickCounter, 1)
recordClick(n) == n + 1

\* The default arm falling into the cursor histogram.
DispatchSamplesDefault(t) ==
    CASE t = "click" -> ClickSamples
      [] t = "scroll" -> ScrollSamples
      [] t = "custom" -> CustomSamples
      [] OTHER -> MoveSamples

\* go.opentelemetry.io/otel/trace Span.SetAttributes: an attribute whose
\* key the span already has is overwritten.
SetAttributes(span, kv) ==
    [k \in DOMAIN span \cup DOMAIN kv |->
        IF k \in DOMAIN kv THEN kv[k] ELSE span[k]]

\* service.go:206-209  the two attributes every custom_event span gets.
CustomBase(e) ==
    "custom.element_id" :> e.ElementID @@ "custom.session_id" :> e.SessionID

\* service.go:212-216  the range over event.Custom: one SetAttributes for
\* each entry whose value asserts to string; keys arrive in any order and
\* are distinct, so the entries commute.
RECURSIVE CustomEntries(_, _, _)
CustomEntries(span, custom, keys) ==
    IF keys = {} THEN span
    ELSE LET key == CHOOSE k \in keys : TRUE IN
         CustomEntries(
            IF custom[key].kind = "string"
            THEN SetAttributes(span, ("custom." \o key) :> custom[key].val)
            ELSE span,
            custom, keys \ {key})

\* service.go:203-219  the attributes of the custom_event span.
recordCustomEvent(e) ==
    CustomEntries(SetAttributes(NoAttributes, CustomBase(e)), e.Custom,
                  DOMAIN e.Custom)

\* service.go:122-133  the switch on event.EventType.
DispatchSamples(t) ==
    CASE t = "click" -> ClickSamples
      [] t = "mousemove" -> MoveSamples
      [] t = "scroll" -> ScrollSamples
      [] t = "custom" -> CustomSamples
      [] OTHER -> {}

\* The cursor arm counting a click as well.
DispatchCountsMoves(p) ==
    /\ Ready
    /\ pc[p] = "pte_dispatch"
    /\ clickCounter' = IF event[p].EventType \in {"click", "mousemove"}
                       THEN recordClick(clickCounter) ELSE clickCounter
    /\ Emit(p, RequestSpans \cup TrackingSpan
                \cup DispatchSamples(event[p].EventType) \cup HTTPSamples)
    /\ detail' = [detail EXCEPT ![p] =
                    IF event[p].EventType = "custom"
                    THEN recordCustomEvent(event[p]) ELSE NoAttributes]
    /\ result' = [result EXCEPT ![p] = "success"]
    /\ Goto(p, "done")
    /\ UNCHANGED <<sessions, pageViews, sessionCounter, mutex, now, event, arg,
                   clnNow, todo, hm, rate, history>>

\* service.go:121-143, handler.go:199-239 and middleware.go:84-90  the
\* switch, the return of nil, the handler's success response and the
\* request metrics of MetricsCollector.
Dispatch(p) ==
    /\ Ready
    /\ pc[p] = "pte_dispatch"
    /\ clickCounter' = IF event[p].EventType = "click"
                       THEN recordClick(clickCounter) ELSE clickCounter
    /\ Emit(p, RequestSpans \cup TrackingSpan
                \cup DispatchSamples(event[p].EventType) \cup HTTPSamples)
    /\ detail' = [detail EXCEPT ![p] =
                    IF event[p].EventType = "custom"
                    THEN recordCustomEvent(event[p]) ELSE NoAttributes]
    /\ result' = [result EXCEPT ![p] = "success"]
    /\ Goto(p, "done")
    /\ UNCHANGED <<sessions, pageViews, sessionCounter, mutex, now, event, arg,
                   clnNow, todo, hm, rate, history>>

\* A plain s.pageViews++: the add is lost when another goroutine is at work.
HomePageRacy(p) ==
    /\ Begin(p, NoEvent, 0, "done")
    /\ pageViews' = IF \E q \in Procs : q # p /\ pc[q] # "idle"
                    THEN pageViews ELSE pageViews + 1
    /\ result' = [result EXCEPT ![p] = "page"]
    /\ Emit(p, {"span:page_view"} \cup HTTPSamples)
    /\ detail' = detail
    /\ hm' = Disturb(p)
    /\ UNCHANGED <<sessions, clickCounter, sessionCounter, mutex, now, clnNow,
                   todo, rate, sentClicks, evicted, preEvict,
                       lastSweep>>

\* ------------------------------------------------------------ GET /
\* handler.go:38-56, service.go:248-259 and middleware.go:84-90  HomePage
\* calls TrackPageView: atomic.AddInt64(&s.pageViews, 1), then a span.  The
\* page is rendered and MetricsCollector records the request.
HomePage(p) ==
    /\ Begin(p, NoEvent, 0, "done")
    /\ pageViews' = pageViews + 1
    /\ result' = [result EXCEPT ![p] = "page"]
    /\ Emit(p, {"span:page_view"} \cup HTTPSamples)
    /\ detail' = detail
    /\ hm' = Disturb(p)
    /\ UNCHANGED <<sessions, clickCounter, sessionCounter, mutex, now, clnNow,
                   todo, rate, sentClicks, evicted, preEvict,
                       lastSweep>>

\* --------------------------------------------------- GET /api/health
\* handler.go:242-253  HealthCheck enters GetHealthMetrics.
HealthCheckBegin(p) ==
    /\ Begin(p, NoEvent, 0, "ghm_rlock")
    /\ hm' = [Disturb(p) EXCEPT ![p].Seq = started,
                                ![p].Quiet = \A q \in Procs : pc[q] = "idle"]
    /\ UNCHANGED <<shared, mutex, now, clnNow, todo, rate, result, samples, detail,
                   sentClicks, evicted, preEvict,
                       lastSweep>>

\* The sessions ever created taken for the sessions resident.
ActiveCountCreated(m) == sessionCounter

\* service.go:279  int64(len(s.sessions))
ActiveCount(m) == Cardinality(DOMAIN m)

\* service.go:278-279  RLock and len(s.sessions).
GhmRLock(p) ==
    /\ Ready
    /\ pc[p] = "ghm_rlock"
    /\ writer = NoLock
    /\ readers' = readers \cup {p}
    /\ hm' = [hm EXCEPT ![p].ActiveUsers = ActiveCount(sessions)]
    /\ Goto(p, "ghm_runlock")
    /\ UNCHANGED <<shared, writer, now, event, arg, clnNow, todo, rate, result,
                   samples, detail, history>>

\* The read lock kept across the loads of the counters.
GhmRUnlockLate(p) ==
    /\ Ready
    /\ pc[p] = "ghm_runlock"
    /\ hm' = [hm EXCEPT ![p].Uptime = now - startTime]
    /\ Goto(p, "ghm_clicks")
    /\ UNCHANGED <<shared, mutex, now, event, arg, clnNow, todo, rate, result,
                   samples, detail, history>>

\* service.go:280-282  RUnlock; uptime := time.Since(s.startTime).
GhmRUnlock(p) ==
    /\ Ready
    /\ pc[p] = "ghm_runlock"
    /\ readers' = readers \ {p}
    /\ hm' = [hm EXCEPT ![p].Uptime = now - startTime]
    /\ Goto(p, "ghm_clicks")
    /\ UNCHANGED <<shared, writer, now, event, arg, clnNow, todo, rate, result,
                   samples, detail, history>>

\* service.go:286  atomic.LoadInt64(&s.clickCounter)
GhmClicks(p) ==
    /\ Ready
    /\ pc[p] = "ghm_clicks"
    /\ hm' = [hm EXCEPT ![p].TotalClicks = clickCounter]
    /\ Goto(p, "ghm_views")
    /\ UNCHANGED <<shared, mutex, now, event, arg, clnNow, todo, rate, result,
                   samples, detail, history>>

\* service.go:287  atomic.LoadInt64(&s.pageViews)
GhmViews(p) ==
    /\ Ready
    /\ pc[p] = "ghm_views"
    /\ hm' = [hm EXCEPT ![p].PageViews = pageViews]
    /\ Goto(p, "ghm_sessions")
    /\ UNCHANGED <<shared, mutex, now, event, arg, clnNow, todo, rate, result,
                   samples, detail, history>>

\* The load of the line above pasted: total_sessions read from pageViews.
GhmSessionsPasted(p) ==
    /\ Ready
    /\ pc[p] = "ghm_sessions"
    /\ hm' = [hm EXCEPT ![p].TotalSessions = pageViews]
    /\ result' = [result EXCEPT ![p] = "healthy"]
    /\ Goto(p, "done")
    /\ UNCHANGED <<shared, mutex, now, event, arg, clnNow, todo, rate, samples, detail,
                   history>>

\* service.go:289-290 and handler.go:255-271  the last load, the return of
\* the HealthMetrics value and the handler's response.
GhmSessions(p) ==
    /\ Ready
    /\ pc[p] = "ghm_sessions"
    /\ hm' = [hm EXCEPT ![p].TotalSessions = sessionCounter]
    /\ result' = [result EXCEPT ![p] = "healthy"]
    /\ Goto(p, "done")
    /\ UNCHANGED <<shared, mutex, now, event, arg, clnNow, todo, rate, samples, detail,
                   history>>

\* handler.go:23-28, 255-260  the HealthResponse HealthCheck encodes from
\* the HealthMetrics it got, at time t.
HealthResponse(healthData, t) ==
    [status |-> "healthy", timestamp |-> t, version |-> "v1.0.0",
     uptime |-> healthData.Uptime]

\* --------------------------------------------------- GetClickRate
\* service.go:293-300  one atomic load, then arithmetic on locals.  The
\* window is in whole minutes; the float64 quotient is kept as the pair
\* <<clicks, minutes>>.
\* The guard of line 296 left out: a window of zero divides by zero.
ClickRateUnguarded(clicks, minutes) == <<clicks, minutes>>

ClickRate(clicks, minutes) ==
    IF minutes = 0 THEN <<0, 1>> ELSE <<clicks, minutes>>

\* The windows GetClickRate is called with: none, one minute, longer.
Windows == 0 .. MaxAge + 1

GetClickRate(p) ==
    \E d \in Windows :
        /\ Begin(p, NoEvent, d, "done")
        /\ rate' = [rate EXCEPT ![p] = ClickRate(clickCounter, d)]
        /\ result' = [result EXCEPT ![p] = "rate"]
        /\ hm' = Disturb(p)
        /\ UNCHANGED <<shared, mutex, now, clnNow, todo, samples, detail,
                       sentClicks, evicted, preEvict,
                       lastSweep>>

\* --------------------------------------------- CleanupOldSessions
\* service.go:302  the sweep is called with a threshold.
CleanupBegin(p) ==
    \E maxAge \in 0..MaxAge :
        /\ Begin(p, NoEvent, maxAge, "cln_lock")
        /\ hm' = Disturb(p)
        /\ UNCHANGED <<shared, mutex, now, clnNow, todo, rate, result,
                       samples, detail, sentClicks, evicted, preEvict,
                       lastSweep>>

\* service.go:303-306  Lock(); now := time.Now(); the range loop starts.
ClnLock(p) ==
    /\ Ready
    /\ pc[p] = "cln_lock"
    /\ writer = NoLock
    /\ readers = {}
    /\ writer' = p
    /\ clnNow' = [clnNow EXCEPT ![p] = now]
    /\ todo' = [todo EXCEPT ![p] = DOMAIN sessions]
    /\ preEvict' = sessions
    /\ Goto(p, "cln_iter")
    /\ UNCHANGED <<shared, readers, now, event, arg, hm, rate, result, samples, detail,
                   started, sentClicks, evicted, lastSweep>>

\* The age of a session counted from its creation, not its last event.
StaleSinceStart(session, t, maxAge) == t - session.StartTime > maxAge

\* >= for >: a session whose age equals maxAge is swept too.
StaleInclusive(session, t, maxAge) == t - session.LastActive >= maxAge

\* service.go:308  now.Sub(session.LastActive) > maxAge
Stale(session, t, maxAge) == t - session.LastActive > maxAge

\* The session emptied and left in the map under its id.
DeleteClears(m, sid) ==
    [m EXCEPT ![sid].Events = <<>>, ![sid].ClickCount = 0]

\* service.go:309  delete(s.sessions, sessionID)
Delete(m, sid) == [s \in DOMAIN m \ {sid} |-> m[s]]

\* The sweep takes the session back out of the sessions-created counter.
ClnDeleteUncount(sid) ==
    /\ sessions' = Delete(sessions, sid)
    /\ evicted' = evicted \cup {sid}
    /\ sessionCounter' = sessionCounter - 1
    /\ UNCHANGED <<clickCounter, pageViews>>

\* A sweep that resets the click counter with the sessions it removes.
ClnDeleteReset(sid) ==
    /\ sessions' = Delete(sessions, sid)
    /\ evicted' = evicted \cup {sid}
    /\ clickCounter' = 0
    /\ UNCHANGED <<pageViews, sessionCounter>>

\* service.go:309  the body of the if: the session leaves the map and
\* nothing else of the service changes.
ClnDelete(sid) ==
    /\ sessions' = Delete(sessions, sid)
    /\ evicted' = evicted \cup {sid}
    /\ UNCHANGED <<clickCounter, pageViews, sessionCounter>>

\* service.go:307-311  one iteration of the range loop, in any order.
ClnIter(p) ==
    /\ Ready
    /\ pc[p] = "cln_iter"
    /\ \E sid \in todo[p] :
        /\ IF Stale(sessions[sid], clnNow[p], arg[p])
           THEN ClnDelete(sid)
           ELSE UNCHANGED <<shared, evicted>>
        /\ todo' = [todo EXCEPT ![p] = @ \ {sid}]
    /\ UNCHANGED <<mutex, now, pc, event, arg, clnNow, hm, rate, result, samples, detail,
                   started, sentClicks, preEvict,
                   lastSweep>>

\* service.go:304, 307, 312  the range loop has visited every session; the
\* deferred Unlock(); return.
ClnUnlock(p) ==
    /\ Ready
    /\ pc[p] = "cln_iter"
    /\ todo[p] = {}
    /\ writer = p
    /\ writer' = NoLock
    /\ preEvict' = NoSessions
    /\ lastSweep' = <<clnNow[p], arg[p]>>
    /\ result' = [result EXCEPT ![p] = "swept"]
    /\ Goto(p, "done")
    /\ UNCHANGED <<shared, readers, now, event, arg, clnNow, todo, hm, rate,
                   samples, detail, started, sentClicks, evicted>>

\* ------------------------------------------------------ specification
Step(p, E) ==
    \/ TrackEventReject(p, E)
    \/ TrackEventAccept(p, E)
    \/ UpdLock(p)
    \/ UpdCount(p)
    \/ UpdTouch(p)
    \/ Dispatch(p)
    \/ HomePage(p)
    \/ HealthCheckBegin(p)
    \/ GhmRLock(p)
    \/ GhmRUnlock(p)
    \/ GhmClicks(p)
    \/ GhmViews(p)
    \/ GhmSessions(p)
    \/ GetClickRate(p)
    \/ CleanupBegin(p)
    \/ ClnLock(p)
    \/ ClnIter(p)
    \/ ClnUnlock(p)

Next ==
    \/ Tick
    \/ \E p \in Procs : Step(p, Requests)
    \/ \E p \in Procs : Return(p)

Spec == Init /\ [][Next]_vars

\* The requests of SpecCustom: custom events with each of the custom maps,
\* and the rejected event.
CustomRequests ==
    TrackingEvent({"custom"}, {ZeroTime}, CustomMaps)
        \cup TrackingEvent({""}, {ZeroTime}, {NoCustom})

CustomNext ==
    \/ Tick
    \/ \E p \in Procs : Step(p, CustomRequests)
    \/ \E p \in Procs : Return(p)

SpecCustom == Init /\ [][CustomNext]_vars

\* The timestamps a caller supplies: at, before and after the server's clock.
ClientTimes == 1 .. MaxTime + 1

\* The requests of SpecStamped: clicks with and without a timestamp of the
\* caller's, and the rejected event.
StampedRequests ==
    TrackingEvent({"click"}, {ZeroTime} \cup ClientTimes, {NoCustom})
        \cup TrackingEvent({""}, {ZeroTime}, {NoCustom})

StampedNext ==
    \/ Tick
    \/ \E p \in Procs : Step(p, StampedRequests)
    \/ \E p \in Procs : Return(p)

SpecStamped == Init /\ [][StampedNext]_vars

\* The requests of FairSpec: the lock is taken alike for every accepted
\* event type, so one accepted type and the rejected one stand for all.
LiveRequests == TrackingEvent({"", "click"}, {ZeroTime}, {NoCustom})

LiveNext ==
    \/ Tick
    \/ \E p \in Procs : Step(p, LiveRequests)
    \/ \E p \in Procs : Return(p)

\* A goroutine that has a request in hand keeps being scheduled: the Go
\* scheduler is preemptive and sync.RWMutex hands the lock to a waiter.
Run(p) == pc[p] # "idle" /\ (Step(p, LiveRequests) \/ Return(p))

FairSpec == Init /\ [][LiveNext]_vars /\ \A p \in Procs : WF_vars(Run(p))

\* ------------------------------------------------------------ claims
\* The positions inside ProcessTrackingEvent.
SubmitLabels == {"upd_lock", "upd_count", "upd_touch", "pte_dispatch"}
InSubmit(p) == pc[p] \in SubmitLabels
NoSubmitRunning == \A p \in Procs : ~InSubmit(p)

\* The sum of f over S.
RECURSIVE SumOver(_, _)
SumOver(f, S) ==
    IF S = {} THEN 0
    ELSE LET x == CHOOSE y \in S : TRUE IN f[x] + SumOver(f, S \ {x})

TotalSentClicks == SumOver(sentClicks, SessionIDs)

\* C1: once every accepted click submit has completed, the global click
\* counter equals the number of click submits, whatever their interleaving.
C1_NoLostClick ==
    NoSubmitRunning => clickCounter = TotalSentClicks

\* Two click submits were served by two goroutines at once (the second goroutine
\* only serves while the first is busy) and both have completed.
C1_Witness ==
    /\ started = 2
    /\ clickCounter = 2
    /\ pc[1] = "idle"
    /\ pc[2] = "done" /\ event[2].EventType = "click"

\* click_count of a session id, 0 while it is not resident.
SessionClicks(sid) ==
    IF sid \in DOMAIN sessions THEN sessions[sid].ClickCount ELSE 0

\* C2: for a session id that no sweep has removed, once no submit for it is
\* running, the session's click_count equals the number of click events
\* submitted for that id.
C2_ClickCount ==
    \A sid \in SessionIDs :
        (/\ sid \notin evicted
         /\ \A p \in Procs : InSubmit(p) => event[p].SessionID # sid)
        => SessionClicks(sid) = sentClicks[sid]

\* A session that took a click and a non-click event, next to another session.
C2_Witness ==
    /\ NoSubmitRunning
    /\ evicted = {}
    /\ DOMAIN sessions = SessionIDs
    /\ \E sid \in SessionIDs :
        /\ Len(sessions[sid].Events) = 2
        /\ sessions[sid].ClickCount = 1

\* The range loop of the sweep of p is over; p still holds the lock.
SweepDone(p) == pc[p] = "cln_iter" /\ todo[p] = {}

\* C3: when the sweep's loop is over, the map holds exactly the sessions it
\* held when the sweep took the lock whose age (the sweep's now minus
\* last_active) is at most maxAge, each of them unchanged.
C3_EvictExact ==
    \A p \in Procs :
        SweepDone(p) =>
            /\ DOMAIN sessions =
                 {sid \in DOMAIN preEvict :
                     ~(clnNow[p] - preEvict[sid].LastActive > arg[p])}
            /\ \A sid \in DOMAIN sessions : sessions[sid] = preEvict[sid]

\* A sweep removed one session and kept one whose age equals maxAge.
C3_Witness ==
    \E p \in Procs :
        /\ SweepDone(p)
        /\ \E sid \in DOMAIN preEvict : sid \notin DOMAIN sessions
        /\ \E sid \in DOMAIN sessions :
               clnNow[p] - sessions[sid].LastActive = arg[p]

\* The step is one of process p (an iteration of a sweep keeps pc).
Stepped(p) == pc'[p] # pc[p]

\* C4: no step of a request whose event_type is empty changes the sessions
\* or a counter, and the request ends in a validation failure.
C4_RejectIsNoOp ==
    [][\A p \in Procs :
          (Stepped(p) /\ event'[p].EventType = "")
          => /\ UNCHANGED <<sessions, clickCounter, pageViews, sessionCounter>>
             /\ pc'[p] = "done"
             /\ result'[p] = "ValidationError"]_vars

\* An event without a type was rejected while sessions and clicks existed.
C4_Witness ==
    \E p \in Procs :
        /\ pc[p] = "done"
        /\ event[p].EventType = ""
        /\ result[p] = "ValidationError"
        /\ sessions # NoSessions
        /\ clickCounter > 0

\* The request of p is a TrackEvent request.
IsSubmit(p) == event[p] # NoEvent

\* C5: a finished submit has failed exactly when its event_type is empty,
\* and then with a validation error; every other one has succeeded, with its
\* session update and counter update done, whether or not its telemetry
\* samples landed.
C5_FailsIffEmpty ==
    \A p \in Procs :
        (pc[p] = "done" /\ IsSubmit(p)) =>
            /\ result[p] \in {"ValidationError", "success"}
            /\ result[p] = "ValidationError" <=> event[p].EventType = ""
            /\ result[p] = "success" =>
                /\ event[p].SessionID \in DOMAIN sessions \cup evicted
                /\ event[p].EventType = "click" => clickCounter > 0

\* A click submit succeeded, session and counter updated, although every
\* sample of the request was lost.
C5_Witness ==
    \E p \in Procs :
        /\ pc[p] = "done"
        /\ event[p].EventType = "click"
        /\ result[p] = "success"
        /\ samples[p] = {}
        /\ clickCounter = 1
        /\ event[p].SessionID \in DOMAIN sessions
        /\ sessions[event[p].SessionID].ClickCount = 1

\* p has a snapshot that started when exactly one operation, an accepted
\* click submit, had run and returned, and nothing has started since.
ScenarioA(p) ==
    /\ pc[p] = "done"
    /\ result[p] = "healthy"
    /\ hm[p].Seq = 1
    /\ hm[p].Quiet
    /\ TotalSentClicks = 1

\* C6: a snapshot taken after one click submit has completed, and nothing
\* else has run, is total_clicks = 1, page_views = 0, active_users = 1,
\* total_sessions = 1.
C6_ScenarioA ==
    \A p \in Procs :
        ScenarioA(p) =>
            /\ hm[p].TotalClicks = 1
            /\ hm[p].PageViews = 0
            /\ hm[p].ActiveUsers = 1
            /\ hm[p].TotalSessions = 1

\* Such a snapshot has been taken.
C6_Witness == \E p \in Procs : ScenarioA(p)

\* p is inside CleanupOldSessions.
InSweep(p) == pc[p] \in {"cln_lock", "cln_iter"}

\* C7: no step of a sweep changes a counter.
C7_EvictKeepsCounters ==
    [][\A p \in Procs :
          (InSweep(p) /\ (Stepped(p) \/ todo'[p] # todo[p]))
          => UNCHANGED <<clickCounter, pageViews, sessionCounter>>]_vars

\* A sweep has removed a session that contributed a click.
C7_Witness ==
    \E p \in Procs :
        /\ SweepDone(p)
        /\ \E sid \in DOMAIN preEvict :
            /\ sid \notin DOMAIN sessions
            /\ preEvict[sid].ClickCount > 0
        /\ clickCounter > 0
        /\ sessionCounter > 0

\* C8: no step lowers the click, page-view or sessions-created counter.
C8_CountersMonotone ==
    [][/\ clickCounter' >= clickCounter
       /\ pageViews' >= pageViews
       /\ sessionCounter' >= sessionCounter]_vars

\* All three counters have moved and a sweep has removed a session.
C8_Witness ==
    /\ clickCounter > 0
    /\ pageViews > 0
    /\ sessionCounter > 0
    /\ evicted # {}

\* What one step may do to last_active.
C9_Step ==
    \A sid \in DOMAIN sessions \cap DOMAIN sessions' :
        /\ sessions'[sid].LastActive >= sessions[sid].LastActive
        /\ \A p \in Procs :
             (pc[p] = "upd_touch" /\ Stepped(p) /\ event[p].SessionID = sid)
             => sessions'[sid].LastActive = now
        /\ sessions'[sid].LastActive # sessions[sid].LastActive
           => \E p \in Procs :
                /\ pc[p] = "upd_touch"
                /\ Stepped(p)
                /\ event[p].SessionID = sid
                /\ sessions'[sid].LastActive = now

\* C9: last_active of a resident session is never earlier than its creation
\* time and never decreases; it changes only in the update step of a submit
\* for that session id, which sets it to the current time.
C9_LastActive ==
    /\ [](\A sid \in DOMAIN sessions :
            sessions[sid].LastActive >= sessions[sid].StartTime)
    /\ [][C9_Step]_vars

\* A session was touched again after its creation, at a later time.
C9_Witness ==
    \E sid \in DOMAIN sessions :
        /\ Len(sessions[sid].Events) = 2
        /\ sessions[sid].LastActive > sessions[sid].StartTime

\* What one step may do to the set of resident sessions.
C10_Step ==
    \A sid \in SessionIDs :
        /\ (sid \notin DOMAIN sessions /\ sid \in DOMAIN sessions')
           => \E p \in Procs :
                /\ pc[p] = "upd_lock"
                /\ Stepped(p)
                /\ event[p].SessionID = sid
        /\ (sid \in DOMAIN sessions /\ sid \notin DOMAIN sessions')
           => \E p \in Procs :
                /\ pc[p] = "cln_iter"
                /\ sid \in todo[p]
                /\ sid \notin todo'[p]

\* C10: a session enters the map only in the lookup step of a submit
\* carrying its id, and leaves it only in an iteration of a sweep.
C10_SessionLifecycle == [][C10_Step]_vars

\* A session was created, swept and created again.
C10_Witness ==
    \E sid \in DOMAIN sessions : sid \in evicted

\* What a step that returns a click rate may do: nothing to the service.
C11_Step ==
    \A p \in Procs :
        (result'[p] = "rate" /\ result[p] # "rate")
        => UNCHANGED <<sessions, clickCounter, pageViews, sessionCounter,
                       writer, readers>>

\* The rate GetClickRate has just returned to p is the quotient q.
RateIs(p, num, den) ==
    /\ rate[p][2] # 0
    /\ rate[p][1] * den = num * rate[p][2]

\* C11: GetClickRate returns 0 for a window of zero and the click counter
\* divided by the window's minutes for a window above zero; it always
\* returns a value and changes nothing of the service.
C11_ClickRate ==
    /\ [](\A p \in Procs :
            (pc[p] = "done" /\ result[p] = "rate")
            => IF arg[p] = 0 THEN RateIs(p, 0, 1)
                             ELSE RateIs(p, clickCounter, arg[p]))
    /\ [][C11_Step]_vars

\* One click in a window of two minutes: half a click a minute.
C11_Witness ==
    \E p \in Procs :
        /\ pc[p] = "done"
        /\ result[p] = "rate"
        /\ arg[p] = 2
        /\ clickCounter = 1
        /\ rate[p] = <<1, 2>>

\* The sessions resident now.
Resident == DOMAIN sessions

\* p holds the read lock of GetHealthMetrics.
HoldsRLock(p) == pc[p] = "ghm_runlock"

\* p has a snapshot during which no other operation was running or started.
Undisturbed(p) ==
    /\ pc[p] = "done"
    /\ result[p] = "healthy"
    /\ hm[p].Quiet
    /\ started = hm[p].Seq + 1

\* C12: while GetHealthMetrics holds the read lock no writer holds the
\* mutex and the active_users it has read is the number of sessions
\* resident; a snapshot during which nothing else ran returns the number
\* of sessions resident at its return.
C12_ActiveUsers ==
    \A p \in Procs :
        /\ HoldsRLock(p) => /\ p \in readers
                            /\ writer = NoLock
                            /\ hm[p].ActiveUsers = Cardinality(Resident)
        /\ Undisturbed(p) => hm[p].ActiveUsers = Cardinality(Resident)

\* A snapshot holds the read lock and has counted the one resident session
\* while another goroutine waits to sweep.
C12_Witness ==
    \E p \in Procs :
        /\ HoldsRLock(p)
        /\ hm[p].ActiveUsers = 1
        /\ \E q \in Procs : pc[q] = "cln_lock"

\* e is an event of a type the switch of ProcessTrackingEvent does not know.
Unrecognized(e) ==
    /\ e # NoEvent
    /\ e.EventType \notin {"", "click", "mousemove", "scroll", "custom"}

\* The samples of the metric instruments ProcessTrackingEvent can reach:
\* the click counter and the cursor histogram.
EventMetrics ==
    {m \in ClickSamples \cup MoveSamples \cup ScrollSamples \cup CustomSamples :
        m \notin {"span:click_analytics", "span:custom_event"}}

\* A step of a submit of an unrecognized event: the session update appends
\* the event and stamps last_active; no counter moves but sessionCounter,
\* by one, on creation.
C13_Step ==
    \A p \in Procs :
        (Stepped(p) /\ (Unrecognized(event[p]) \/ Unrecognized(event'[p])))
        => /\ clickCounter' = clickCounter
           /\ pageViews' = pageViews
           /\ sessionCounter' \in {sessionCounter, sessionCounter + 1}
           /\ pc[p] = "upd_touch"
              => LET sid == event[p].SessionID IN
                   /\ sid \in DOMAIN sessions'
                   /\ sessions'[sid].Events
                        = Append(sessions[sid].Events, event[p])
                   /\ sessions'[sid].LastActive = now

\* C13: an event of a non-empty type that is none of click, mousemove,
\* scroll, custom is accepted: its submit succeeds, appends the event to its
\* session (created if absent) and stamps last_active, moves no counter
\* other than sessions-created, and records no sample on the click counter
\* or the cursor histogram.
C13_UnknownType ==
    /\ [](\A p \in Procs :
            (pc[p] = "done" /\ Unrecognized(event[p]))
            => /\ result[p] = "success"
               /\ samples[p] \cap EventMetrics = {}
               /\ samples[p] \subseteq RequestSpans \cup TrackingSpan
                                          \cup HTTPSamples)
    /\ [][C13_Step]_vars

\* A submit of a hover event has created its session and returned, its
\* samples landed.
C13_Witness ==
    \E p \in Procs :
        /\ pc[p] = "done"
        /\ Unrecognized(event[p])
        /\ result[p] = "success"
        /\ samples[p] # {}
        /\ sessionCounter = 1
        /\ event[p].SessionID \in DOMAIN sessions
        /\ sessions[event[p].SessionID].Events = <<event[p]>>

\* At the time and for the maxAge of the sweep of p, session s has expired.
Expired(p, s) == clnNow[p] - s.LastActive > arg[p]

\* C14: a sweep that finds no session expired leaves the map as it found
\* it; so does a sweep with the time and maxAge of the sweep before it when
\* no submit has updated a session in between; and a sweep in progress holds
\* the mutex alone, has removed only sessions that had expired when it took
\* the lock, and has left the others as they were.
C14_EvictIdempotent ==
    \A p \in Procs :
        /\ (SweepDone(p) /\ \A sid \in DOMAIN preEvict : ~Expired(p, preEvict[sid]))
           => sessions = preEvict
        /\ (SweepDone(p) /\ lastSweep = <<clnNow[p], arg[p]>>)
           => sessions = preEvict
        /\ pc[p] = "cln_iter"
           => /\ writer = p
              /\ readers = {}
              /\ \A q \in Procs \ {p} : pc[q] \notin {"cln_iter", "upd_count", "upd_touch"}
              /\ DOMAIN sessions \subseteq DOMAIN preEvict
              /\ \A sid \in DOMAIN preEvict :
                    IF sid \in DOMAIN sessions
                    THEN sessions[sid] = preEvict[sid]
                    ELSE Expired(p, preEvict[sid])

\* A sweep has removed a session, and a second sweep at the same time with
\* the same maxAge, no submit in between, has finished its loop.
C14_Witness ==
    \E p \in Procs :
        /\ SweepDone(p)
        /\ lastSweep = <<clnNow[p], arg[p]>>
        /\ evicted # {}
        /\ sessions = preEvict

\* The fields of the snapshot of GetHealthMetrics, by their JSON names.
SnapshotFields ==
    {"uptime", "total_clicks", "page_views", "active_users", "total_sessions"}

\* C15: the response of a health query carries uptime, total_clicks,
\* page_views, active_users and total_sessions with the values
\* GetHealthMetrics read for that query.
C15_FiveFields ==
    \A p \in Procs :
        (pc[p] = "done" /\ result[p] = "healthy")
        => LET response == HealthResponse(hm[p], now) IN
             /\ SnapshotFields \subseteq DOMAIN response
             /\ response.uptime = hm[p].Uptime
             /\ response.total_clicks = hm[p].TotalClicks
             /\ response.page_views = hm[p].PageViews
             /\ response.active_users = hm[p].ActiveUsers
             /\ response.total_sessions = hm[p].TotalSessions

\* p has stored a new session and not yet counted it (service.go:235-236).
Creating(p) == pc[p] = "upd_count"

\* The session p has just created.
Created(p) == sessions[event[p].SessionID]

\* A session is created only for an id that is not resident, with
\* click_count 0 and no events, and counted once: while no sweep has removed
\* a session, the sessions counted and the ones being counted are the
\* sessions resident.
C16_CreatedOnce ==
    /\ \A p \in Procs :
          Creating(p) => /\ writer = p
                         /\ Created(p).ID = event[p].SessionID
                         /\ Created(p).ClickCount = 0
                         /\ Created(p).Events = <<>>
    /\ evicted = {}
       => sessionCounter + Cardinality({p \in Procs : Creating(p)})
            = Cardinality(DOMAIN sessions)

\* C16: updateSession creates a session exactly when the id is not
\* resident, with click_count 0, no events and start = last_active, and
\* adds one to the sessions-created counter; submits that race on a new id
\* create one session and count it once.
C16_Upsert ==
    /\ C16_CreatedOnce
    /\ \A p \in Procs :
          Creating(p) => Created(p).StartTime = Created(p).LastActive

\* The step is one of the submit of p, from its acceptance to its return.
SubmitStep(p) ==
    /\ Stepped(p)
    /\ \/ InSubmit(p)
       \/ pc[p] = "idle" /\ InSubmit(p)'

\* C17: a submit adds one to the click counter when its event is a click,
\* at the switch, and at no other step and for no other type; no step of a
\* submit changes the page-view counter.
C17_CounterFrame ==
    [][\A p \in Procs :
          SubmitStep(p)
          => /\ pageViews' = pageViews
             /\ clickCounter' =
                  IF pc[p] = "pte_dispatch" /\ event[p].EventType = "click"
                  THEN clickCounter + 1 ELSE clickCounter]_vars

\* After a page view, a click and a mousemove have each been served: one
\* click counted, one page view.
C17_Witness ==
    /\ clickCounter = 1
    /\ pageViews = 1
    /\ \E p \in Procs :
          /\ pc[p] = "done"
          /\ event[p].EventType = "mousemove"
          /\ result[p] = "success"

\* p is at the update of its session (service.go:240-245) and takes it.
Appends(p, sid) ==
    /\ Stepped(p)
    /\ pc[p] = "upd_touch"
    /\ event[p].SessionID = sid

\* C18: the update of an accepted submit appends the submit's event to its
\* session once, at the end; no other step changes the events of a session
\* that stays resident, and a session starts with none: the sequence only
\* grows, by one per event upserted.
C18_EventsAppendOnly ==
    [][/\ \A p \in Procs :
            Appends(p, event[p].SessionID)
            => LET sid == event[p].SessionID IN
                 /\ sid \in DOMAIN sessions /\ sid \in DOMAIN sessions'
                 /\ sessions'[sid].Events
                      = Append(sessions[sid].Events, event[p])
       /\ \A sid \in DOMAIN sessions' :
            IF sid \in DOMAIN sessions
            THEN \/ sessions'[sid].Events = sessions[sid].Events
                 \/ \E p \in Procs : Appends(p, sid)
            ELSE sessions'[sid].Events = <<>>]_vars

\* A submit has just appended the second event of its session, after a
\* click, and is at the switch.
C18_Witness ==
    \E p \in Procs :
        /\ pc[p] = "pte_dispatch"
        /\ event[p].SessionID \in DOMAIN sessions
        /\ LET s == sessions[event[p].SessionID] IN
             /\ Len(s.Events) = 2
             /\ s.Events[1].EventType = "click"
             /\ s.Events[2] = event[p]
             /\ event[p].EventType = "scroll"

\* p is at one of the three atomic loads of GetHealthMetrics.
LoadsCounters(p) == pc[p] \in {"ghm_clicks", "ghm_views", "ghm_sessions"}

\* The snapshot p has returned is one no state without an eviction shows:
\* no session resident, one session created.
Torn(p) ==
    /\ pc[p] = "done"
    /\ result[p] = "healthy"
    /\ evicted = {}
    /\ hm[p].ActiveUsers = 0
    /\ hm[p].TotalSessions = 1

\* C19: GetHealthMetrics is not linearizable.  It loads the three counters
\* holding no lock, after the read lock is released, so a snapshot no state
\* has shown, Torn, is reachable (C19_Witness); a snapshot is never torn
\* when nothing ran beside it.
C19_NotLinearizable ==
    \A p \in Procs :
        /\ LoadsCounters(p) => p \notin readers /\ writer # p
        /\ Undisturbed(p) => ~Torn(p)

\* A snapshot with active_users = 0 and total_sessions = 1 has been
\* returned although no sweep has removed a session, while the submit that
\* created the session is still running.
C19_Witness ==
    \E p \in Procs :
        /\ Torn(p)
        /\ \E q \in Procs : pc[q] \in {"upd_touch", "pte_dispatch"}
        /\ Cardinality(DOMAIN sessions) = 1

\* p is between Lock() and Unlock() of updateSession or CleanupOldSessions.
InCritical(p) == pc[p] \in {"upd_count", "upd_touch", "cln_iter"}

\* C20: the critical sections of updateSession and CleanupOldSessions
\* exclude each other and the locked read of GetHealthMetrics: at most one
\* goroutine is in one, it is the holder of the mutex, and no reader is in;
\* a sweep holds the mutex from its first test to its last delete, so the
\* sessions it has not yet visited are as they were when it took the lock.
C20_MutualExclusion ==
    /\ \A p, q \in Procs : (InCritical(p) /\ InCritical(q)) => p = q
    /\ \A p \in Procs : InCritical(p) => writer = p /\ readers = {}
    /\ writer # NoLock => writer \in Procs /\ InCritical(writer)
    /\ \A p \in Procs : p \in readers <=> HoldsRLock(p)
    /\ \A p \in Procs :
          pc[p] = "cln_iter"
          => \A sid \in todo[p] :
                /\ sid \in DOMAIN sessions
                /\ sessions[sid] = preEvict[sid]

\* A sweep that has removed a session still holds the mutex while a submit
\* for the removed id waits for it.
C20_Witness ==
    \E p, q \in Procs :
        /\ pc[p] = "cln_iter"
        /\ writer = p
        /\ evicted # {}
        /\ pc[q] = "upd_lock"
        /\ event[q].SessionID \in evicted
        /\ event[q].SessionID \notin DOMAIN sessions

\* No goroutine has a request in hand.
AllIdle == \A p \in Procs : pc[p] = "idle"

\* p has an operation that takes the session lock in hand.
InLockingOp(p) ==
    pc[p] \in SubmitLabels
              \cup {"ghm_rlock", "ghm_runlock", "ghm_clicks", "ghm_views",
                    "ghm_sessions", "cln_lock", "cln_iter"}

\* C21: when no operation is in progress the session lock is free, and
\* under fair scheduling every submit, snapshot and sweep that has started
\* returns.
C21_LockReleased ==
    /\ [](AllIdle => writer = NoLock /\ readers = {})
    /\ \A p \in Procs : InLockingOp(p) ~> pc[p] = "done"

\* A submit waits for the lock a sweep holds.
C21_Witness ==
    \E p, q \in Procs :
        /\ pc[p] = "upd_lock"
        /\ pc[q] = "cln_iter"
        /\ writer = q

\* The request of p was rejected for its empty event_type.
Rejected(p) == pc[p] = "done" /\ result[p] = "ValidationError"

\* The samples only ProcessTrackingEvent and the record* functions emit.
EventSamples ==
    TrackingSpan \cup ClickSamples \cup MoveSamples \cup ScrollSamples
                 \cup CustomSamples

\* C22: a rejected event causes no telemetry sample of any kind: the request
\* that carried it produces no counter sample, no histogram sample and no
\* detail record.
C22_RejectSilent ==
    \A p \in Procs : Rejected(p) => samples[p] = {}

\* C22, amended: a rejected event produces no sample of the event
\* instruments (click counter, cursor histogram, event spans); the request
\* that carried it still produces the request counter and duration sample
\* of MetricsCollector and the spans of the handler and the middleware,
\* unless the exporter drops them.
C22_RejectRequestOnly ==
    \A p \in Procs :
        Rejected(p)
        => /\ samples[p] \cap EventSamples = {}
           /\ samples[p] \in {{}, RequestSpans \cup HTTPSamples}

\* A rejected request has left its request metrics and spans.
C22_Witness ==
    \E p \in Procs :
        /\ Rejected(p)
        /\ event[p].EventType = ""
        /\ samples[p] = RequestSpans \cup HTTPSamples

\* The custom event of p has been served.
CustomDone(p) ==
    /\ pc[p] = "done"
    /\ event[p].EventType = "custom"

\* The keys of the entries of custom map m whose value is a string.
StringKeys(m) == {k \in DOMAIN m : m[k].kind = "string"}

\* The custom_event span of p has exactly one attribute custom.<key> for
\* each string entry of the map, with the entry's value, beside
\* custom.element_id and custom.session_id; the request succeeded and the
\* event is in its session as submitted, custom map included, unless a
\* sweep has removed that session.
C23_StringEntries ==
    \A p \in Procs :
        CustomDone(p)
        => LET e == event[p] IN
             /\ result[p] = "success"
             /\ DOMAIN detail[p]
                  = {"custom.element_id", "custom.session_id"}
                      \cup {"custom." \o k : k \in StringKeys(e.Custom)}
             /\ \A k \in StringKeys(e.Custom) :
                   detail[p]["custom." \o k] = e.Custom[k].val
             /\ e.SessionID \notin evicted
                => \E i \in DOMAIN sessions[e.SessionID].Events :
                      sessions[e.SessionID].Events[i] = e

\* C23: the custom_event span carries element_id, session_id and one
\* attribute for each entry of the custom map whose value is a string, none
\* for an entry whose value is a number, a boolean or absent; non-string
\* entries are no error and leave what is stored in the session unchanged.
C23_CustomDetail ==
    /\ C23_StringEntries
    /\ \A p \in Procs :
          CustomDone(p)
          => /\ detail[p]["custom.element_id"] = event[p].ElementID
             /\ detail[p]["custom.session_id"] = event[p].SessionID

\* The event of p has passed validation; arg[p] is the timestamp its
\* request carried.
Accepted(p) ==
    \/ InSubmit(p)
    \/ pc[p] = "done" /\ result[p] = "success"

\* C24: an accepted event whose request carried no timestamp has been given
\* a time of the server's clock before updateSession sees it, one whose
\* request carried a timestamp has kept it, and no event stored in a
\* session has an unset timestamp.
C24_Timestamp ==
    /\ \A p \in Procs :
          Accepted(p)
          => IF arg[p] = ZeroTime
             THEN event[p].Timestamp \in startTime .. now
             ELSE event[p].Timestamp = arg[p]
    /\ \A sid \in DOMAIN sessions :
          \A i \in DOMAIN sessions[sid].Events :
              sessions[sid].Events[i].Timestamp # ZeroTime

\* A session holds an event stamped by the server and, after it, one that
\* kept a timestamp of its caller's that lies ahead of the server's clock.
C24_Witness ==
    \E p \in Procs :
        /\ pc[p] = "done"
        /\ result[p] = "success"
        /\ arg[p] = MaxTime + 1
        /\ event[p].SessionID \in DOMAIN sessions
        /\ LET s == sessions[event[p].SessionID] IN
             /\ Len(s.Events) = 2
             /\ s.Events[1].Timestamp = startTime
             /\ s.Events[2] = event[p]
             /\ s.Events[2].Timestamp = MaxTime + 1

\* The step is a call of TrackPageView by p.
PageViewStep(p) == pc[p] = "idle" /\ result'[p] = "page"

\* C25: TrackPageView adds exactly one to the page-view counter at every
\* call, also beside other requests, and leaves the sessions, the click
\* counter and the sessions-created counter as they are; no other step
\* changes the page-view counter.
C25_PageView ==
    [][IF \E p \in Procs : PageViewStep(p)
       THEN /\ pageViews' = pageViews + 1
            /\ UNCHANGED <<sessions, clickCounter, sessionCounter, mutex>>
       ELSE pageViews' = pageViews]_vars

\* Two page views were counted, the second served while another goroutine
\* was inside a submit.
C25_Witness ==
    /\ pageViews = 2
    /\ pc[1] \in SubmitLabels
    /\ pc[2] = "done"
    /\ result[2] = "page"

\* C26: whenever no writer holds the session mutex, the sessions-created
\* counter is at least the number of sessions resident; and every snapshot
\* returns total_sessions >= active_users.
C26_CreatedCoversResident ==
    /\ writer = NoLock => sessionCounter >= Cardinality(DOMAIN sessions)
    /\ \A p \in Procs :
          (pc[p] = "done" /\ result[p] = "healthy")
          => hm[p].TotalSessions >= hm[p].ActiveUsers

\* A snapshot taken after the one session was swept: one created, none
\* active, the lock free.
C26_Witness ==
    \E p \in Procs :
        /\ pc[p] = "done"
        /\ result[p] = "healthy"
        /\ evicted # {}
        /\ writer = NoLock
        /\ hm[p].TotalSessions = 1
        /\ hm[p].ActiveUsers = 0

\* The accepted click submits that have not yet updated their session.
Unfolded ==
    {p \in Procs : /\ pc[p] \in {"upd_lock", "upd_count", "upd_touch"}
                   /\ event[p].EventType = "click"}

\* The click events folded into sessions so far, evicted sessions included.
FoldedClicks == TotalSentClicks - Cardinality(Unfolded)

\* The sum of click_count over the sessions resident.
ResidentClicks ==
    SumOver([sid \in SessionIDs |->
                IF sid \in DOMAIN sessions THEN sessions[sid].ClickCount ELSE 0],
            SessionIDs)

\* C27: the global click counter is at most the number of click events
\* folded into sessions so far, which while no session has been evicted is
\* the sum of click_count over the resident sessions; when moreover no
\* submit is in progress the counter equals that sum.
C27_CounterBehindSessions ==
    /\ clickCounter <= FoldedClicks
    /\ evicted = {} => FoldedClicks = ResidentClicks
    /\ (NoSubmitRunning /\ evicted = {}) => clickCounter = ResidentClicks

\* A click is folded into its session and not yet counted, beside one that
\* is: the counter is behind the sessions.
C27_Witness ==
    /\ clickCounter = 1
    /\ FoldedClicks = 2
    /\ ResidentClicks = 2
    /\ evicted = {}
    /\ \E p \in Procs : pc[p] = "pte_dispatch" /\ event[p].EventType = "click"

\* The click events in a sequence of events.
RECURSIVE ClicksIn(_)
ClicksIn(events) ==
    IF events = <<>> THEN 0
    ELSE (IF Head(events).EventType = "click" THEN 1 ELSE 0)
         + ClicksIn(Tail(events))

\* A step of a submit for an id a sweep has removed: counting the session
\* it has created adds one to the counter; its update of a session without
\* events leaves the session with that event alone and with the event's own
\* click, if it is one.
C28_Step ==
    \A p \in Procs :
        (Stepped(p) /\ InSubmit(p) /\ event[p].SessionID \in evicted)
        => LET sid == event[p].SessionID IN
             /\ pc[p] = "upd_count" => sessionCounter' = sessionCounter + 1
             /\ (pc[p] = "upd_touch" /\ sessions[sid].Events = <<>>)
                => /\ sessions'[sid].Events = <<event[p]>>
                   /\ sessions'[sid].ClickCount = ClicksIn(<<event[p]>>)

\* C28: a submit for an id whose session a sweep has removed creates a
\* session anew, with click_count 0 and no events, appends its event and
\* counts the creation: an id removed and resident again has been counted
\* at least twice, and a session's click_count is the number of clicks among
\* its own events, those since its latest creation.
C28_Recreation ==
    /\ [](/\ \A p \in Procs :
               Creating(p) => /\ Created(p).ClickCount = 0
                              /\ Created(p).Events = <<>>
          /\ \A sid \in DOMAIN sessions :
               /\ sessions[sid].ClickCount = ClicksIn(sessions[sid].Events)
               /\ (sid \in evicted /\ \A p \in Procs : ~Creating(p))
                  => sessionCounter >= 2)
    /\ [][C28_Step]_vars

\* A session that had a click was swept and a second click has created it
\* again: two clicks submitted for the id, click_count 1, one event, two
\* sessions created for one id.
C28_Witness ==
    \E sid \in DOMAIN sessions :
        /\ sid \in evicted
        /\ sentClicks[sid] = 2
        /\ sessions[sid].ClickCount = 1
        /\ Len(sessions[sid].Events) = 1
        /\ sessionCounter = 2
        /\ clickCounter = 2

\* p has in hand an event with a type and an empty session_id.
Anonymous(p) ==
    /\ event[p] # NoEvent
    /\ event[p].EventType # ""
    /\ event[p].SessionID = ""

\* C29: an event with a type and an empty session_id is accepted and
\* folded into the session keyed by the empty id: every session holds the
\* events of its own id only, the one keyed "" like any other; that session
\* is counted once in the sessions created and once among the active while
\* no sweep has removed it, and a sweep that finds it expired removes it.
C29_EmptySessionID ==
    /\ \A p \in Procs :
          Anonymous(p)
          => /\ pc[p] = "done" => result[p] = "success"
             /\ pc[p] \in {"upd_count", "upd_touch"}
                => "" \in DOMAIN sessions /\ sessions[""].ID = ""
             /\ pc[p] \in {"pte_dispatch", "done"}
                => \/ "" \in evicted
                   \/ /\ "" \in DOMAIN sessions
                      /\ \E i \in DOMAIN sessions[""].Events :
                            sessions[""].Events[i] = event[p]
    /\ \A sid \in DOMAIN sessions :
          /\ sessions[sid].ID = sid
          /\ \A i \in DOMAIN sessions[sid].Events :
                sessions[sid].Events[i].SessionID = sid
    /\ (DOMAIN sessions = {""} /\ evicted = {} /\ \A p \in Procs : ~Creating(p))
       => sessionCounter = 1 /\ ActiveCount(sessions) = 1
    /\ \A p \in Procs :
          (SweepDone(p) /\ "" \in DOMAIN preEvict /\ Expired(p, preEvict[""]))
          => "" \notin DOMAIN sessions

\* Two events without a session id share the one session keyed by the
\* empty id, created once.
C29_Witness ==
    /\ DOMAIN sessions = {""}
    /\ Len(sessions[""].Events) = 2
    /\ sessionCounter = 1
    /\ evicted = {}
    /\ \E p \in Procs : Anonymous(p) /\ pc[p] = "done" /\ result[p] = "success"

====
